---- MODULE Spec2Model ----
(***************************************************************************)
(* Model of the per-database maintenance wiring and operation dispatch of  *)
(* searchcore/proton/server:                                               *)
(*   - PersistenceHandlerProxy (persistencehandlerproxy.cpp)               *)
(*   - MaintenanceJobsInjector (maintenance_jobs_injector.cpp)             *)
(* together with the collaborators they call (feed handler, bucket lock,   *)
(* maintenance controller), which are modelled from the specification.     *)
(***************************************************************************)
EXTENDS Integers, Sequences, FiniteSets, TLC

VARIABLES
    feedQueue,      \* FeedHandler: pending <<token, op>> entries, in submission order
    submitted,      \* tokens that callers have handed to a write operation
    completions,    \* per token: the completion signals delivered so far
    lastCall,       \* the proxy call in progress (NoCall once it has returned)
    delegated,      \* calls that the call in progress made on its collaborators
    callers,        \* per lockBucket caller: where it is, its argument, the id locked
    lockedBuckets,  \* DocumentDB: the bucket ids whose BucketGuard is live
    liveProxies,    \* the proxies constructed and not yet destroyed
    retainCount,    \* DocumentDB: retains by proxies not yet released
    commit,         \* the commitAndWait caller: where it is, what it waits for
    config,         \* DocumentDBMaintenanceConfig (and calc) given to injectJobs
    registry,       \* MaintenanceController: the registered jobs, in order
    injections,     \* number of injectJobs invocations so far
    now,            \* the controller's clock
    lastTick,       \* time of the controller's latest tick
    lastRun,        \* per registered job: time of its last run (registration at first)
    runCount,       \* per registered job: number of runs so far
    overLimit,      \* DiskMemUsageNotifier: the resource state it last published
    blocked,        \* per registered job: whether it is in the Blocked state
    workCount,      \* per registered job: number of work units performed
    lastWork,       \* per registered job: time of its last work unit (0: none)
    failCount,      \* per registered job: number of failed runs recorded
    lastFail,       \* per registered job: time of its last failed run (0: none)
    masterQueue,    \* master thread: submitted runs not yet started, oldest first
    poolQueue,      \* default pool: submitted runs not yet started
    running,        \* the registered jobs whose run is executing
    tasks           \* bucket executor: per task, where it is and its bucket

proxyVars == <<feedQueue, submitted, completions, lastCall, delegated>>
lockVars  == <<callers, lockedBuckets>>
dbVars    == <<liveProxies, retainCount, commit>>
ctrlVars  == <<config, registry, injections, now, lastTick, lastRun, runCount>>
jobVars   == <<overLimit, blocked, workCount, lastWork, failCount, lastFail>>
execVars  == <<masterQueue, poolQueue, running, tasks>>
maintVars == <<config, registry, injections, now, lastTick, lastRun, runCount,
               jobVars, execVars>>
vars == <<feedQueue, submitted, completions, lastCall, delegated,
          callers, lockedBuckets,
          liveProxies, retainCount, commit,
          config, registry, injections, now, lastTick, lastRun, runCount,
          overLimit, blocked, workCount, lastWork, failCount, lastFail,
          masterQueue, poolQueue, running, tasks>>

----------------------------------------------------------------------------
(* Bounds *)

MaxUsedBits == 1      \* largest used-bits count of a bucket id
MaxTokens == 2        \* number of completion tokens callers can supply
MaxFeed == 2          \* feed operations outstanding at a time (SpecFeed)
MaxCallers == 3       \* concurrent lockBucket callers
MaxProxies == 2       \* proxies constructed on one database
MaxInterval == 2      \* largest configured job interval
MaxInjections == 2    \* injectJobs invocations on one controller
MaxTime == 4          \* last instant of the controller's clock
MaxTasks == 2         \* bucket-executor tasks in flight

----------------------------------------------------------------------------
(* Bucket ids.  A raw id carries a used-bits count and id bits; the bits   *)
(* above the count are unused and may hold anything in provider-raw form.  *)

IdWidth == MaxUsedBits + 1

BucketId(usedBits, id) == usedBits * (2 ^ IdWidth) + id

getUsedBits(b) == b \div (2 ^ IdWidth)

getRawId(b) == b % (2 ^ IdWidth)

(* Variant: the id bits are shifted down by one instead of masked. *)
stripUnused_shifted(b) == BucketId(getUsedBits(b), getRawId(b) \div 2)

stripUnused(b) == BucketId(getUsedBits(b), getRawId(b) % (2 ^ getUsedBits(b)))

RawBucketIds ==
    { BucketId(u, i) : u \in 1..MaxUsedBits, i \in 0..((2 ^ IdWidth) - 1) }

IsNormalized(b) == stripUnused(b) = b

----------------------------------------------------------------------------
(* Input domains *)

Tokens == 1..MaxTokens
Timestamps == {10, 20}
NoTimestamp == 0
Payloads == {"p1", "p2"}          \* a document, an update or a document id
ActiveStates == {"ACTIVE", "NOT_ACTIVE"}
ClusterStates == {"cs1", "cs2"}
ResultHandlers == {"rh1", "rh2"}
BucketLists == {<<>>} \cup { <<b>> : b \in RawBucketIds }
Callers == 1..MaxCallers

NoCall == [op |-> "none", token |-> 0, buckets |-> <<>>, timestamp |-> NoTimestamp,
           payload |-> "none", arg |-> "none", resultHandler |-> "none"]

WriteCall(name, token, buckets, timestamp, payload) ==
    [op |-> name, token |-> token, buckets |-> buckets, timestamp |-> timestamp,
     payload |-> payload, arg |-> "none", resultHandler |-> "none"]

ReadCall(name, buckets, arg, resultHandler) ==
    [op |-> name, token |-> 0, buckets |-> buckets, timestamp |-> NoTimestamp,
     payload |-> "none", arg |-> arg, resultHandler |-> resultHandler]

----------------------------------------------------------------------------
(* Feed operations *)

FeedOperation(type, buckets, timestamp, payload) ==
    [type |-> type, buckets |-> buckets, timestamp |-> timestamp, payload |-> payload]

PutOperation(bucketId, timestamp, doc) ==
    FeedOperation("Put", <<bucketId>>, timestamp, doc)

UpdateOperation(bucketId, timestamp, upd) ==
    FeedOperation("Update", <<bucketId>>, timestamp, upd)

RemoveOperation(bucketId, timestamp, id) ==
    FeedOperation("Remove", <<bucketId>>, timestamp, id)

CreateBucketOperation(bucketId) ==
    FeedOperation("CreateBucket", <<bucketId>>, NoTimestamp, "none")

DeleteBucketOperation(bucketId) ==
    FeedOperation("DeleteBucket", <<bucketId>>, NoTimestamp, "none")

SplitBucketOperation(source, target1, target2) ==
    FeedOperation("SplitBucket", <<source, target1, target2>>, NoTimestamp, "none")

JoinBucketsOperation(source1, source2, target) ==
    FeedOperation("JoinBuckets", <<source1, source2, target>>, NoTimestamp, "none")

(* FeedHandler::handleOperation: takes the token and the operation into the *)
(* single-writer pipeline; completion is reported later on the token.       *)
handleOperation(queue, token, op) == Append(queue, [token |-> token, op |-> op])

(* A collaborator call made by the proxy. *)
Delegate(handler, method, buckets, arg, resultHandler) ==
    [handler |-> handler, method |-> method, buckets |-> buckets, arg |-> arg,
     resultHandler |-> resultHandler]

----------------------------------------------------------------------------
(* PersistenceHandlerProxy: write path *)

(* Variant: the put is built on the bucket id as the caller passed it. *)
handlePut_rawBucket(token, bucket, timestamp, doc) ==
    /\ feedQueue' = handleOperation(feedQueue, token,
                                    PutOperation(bucket, timestamp, doc))
    /\ submitted' = submitted \cup {token}
    /\ lastCall' = WriteCall("handlePut", token, <<bucket>>, timestamp, doc)
    /\ delegated' = <<>>
    /\ UNCHANGED <<completions, lockVars, dbVars, maintVars>>

handlePut(token, bucket, timestamp, doc) ==
    /\ feedQueue' = handleOperation(feedQueue, token,
                                    PutOperation(stripUnused(bucket), timestamp, doc))
    /\ submitted' = submitted \cup {token}
    /\ lastCall' = WriteCall("handlePut", token, <<bucket>>, timestamp, doc)
    /\ delegated' = <<>>
    /\ UNCHANGED <<completions, lockVars, dbVars, maintVars>>

handleUpdate(token, bucket, timestamp, upd) ==
    /\ feedQueue' = handleOperation(feedQueue, token,
                                    UpdateOperation(stripUnused(bucket), timestamp, upd))
    /\ submitted' = submitted \cup {token}
    /\ lastCall' = WriteCall("handleUpdate", token, <<bucket>>, timestamp, upd)
    /\ delegated' = <<>>
    /\ UNCHANGED <<completions, lockVars, dbVars, maintVars>>

(* Variant: the remove is built but never handed to the feed handler. *)
handleRemove_notSubmitted(token, bucket, timestamp, id) ==
    /\ feedQueue' = feedQueue
    /\ submitted' = submitted \cup {token}
    /\ lastCall' = WriteCall("handleRemove", token, <<bucket>>, timestamp, id)
    /\ delegated' = <<>>
    /\ UNCHANGED <<completions, lockVars, dbVars, maintVars>>

handleRemove(token, bucket, timestamp, id) ==
    /\ feedQueue' = handleOperation(feedQueue, token,
                                    RemoveOperation(stripUnused(bucket), timestamp, id))
    /\ submitted' = submitted \cup {token}
    /\ lastCall' = WriteCall("handleRemove", token, <<bucket>>, timestamp, id)
    /\ delegated' = <<>>
    /\ UNCHANGED <<completions, lockVars, dbVars, maintVars>>

handleCreateBucket(token, bucket) ==
    /\ feedQueue' = handleOperation(feedQueue, token,
                                    CreateBucketOperation(stripUnused(bucket)))
    /\ submitted' = submitted \cup {token}
    /\ lastCall' = WriteCall("handleCreateBucket", token, <<bucket>>, NoTimestamp, "none")
    /\ delegated' = <<>>
    /\ UNCHANGED <<completions, lockVars, dbVars, maintVars>>

handleDeleteBucket(token, bucket) ==
    /\ feedQueue' = handleOperation(feedQueue, token,
                                    DeleteBucketOperation(stripUnused(bucket)))
    /\ submitted' = submitted \cup {token}
    /\ lastCall' = WriteCall("handleDeleteBucket", token, <<bucket>>, NoTimestamp, "none")
    /\ delegated' = <<>>
    /\ UNCHANGED <<completions, lockVars, dbVars, maintVars>>

handleSplit(token, source, target1, target2) ==
    /\ feedQueue' = handleOperation(feedQueue, token,
                                    SplitBucketOperation(stripUnused(source),
                                                         stripUnused(target1),
                                                         stripUnused(target2)))
    /\ submitted' = submitted \cup {token}
    /\ lastCall' = WriteCall("handleSplit", token, <<source, target1, target2>>,
                             NoTimestamp, "none")
    /\ delegated' = <<>>
    /\ UNCHANGED <<completions, lockVars, dbVars, maintVars>>

handleJoin(token, source1, source2, target) ==
    /\ feedQueue' = handleOperation(feedQueue, token,
                                    JoinBucketsOperation(stripUnused(source1),
                                                         stripUnused(source2),
                                                         stripUnused(target)))
    /\ submitted' = submitted \cup {token}
    /\ lastCall' = WriteCall("handleJoin", token, <<source1, source2, target>>,
                             NoTimestamp, "none")
    /\ delegated' = <<>>
    /\ UNCHANGED <<completions, lockVars, dbVars, maintVars>>

----------------------------------------------------------------------------
(* PersistenceHandlerProxy: read/query path *)

handleListBuckets(resultHandler) ==
    /\ delegated' = <<Delegate("bucketHandler", "handleListBuckets", <<>>, "none",
                               resultHandler)>>
    /\ lastCall' = ReadCall("handleListBuckets", <<>>, "none", resultHandler)
    /\ UNCHANGED <<feedQueue, submitted, completions, lockVars, dbVars, maintVars>>

handleSetClusterState(calc, resultHandler) ==
    /\ delegated' = <<Delegate("clusterStateHandler", "handleSetClusterState", <<>>, calc,
                               resultHandler)>>
    /\ lastCall' = ReadCall("handleSetClusterState", <<>>, calc, resultHandler)
    /\ UNCHANGED <<feedQueue, submitted, completions, lockVars, dbVars, maintVars>>

handleSetActiveState(bucket, newState, resultHandler) ==
    /\ delegated' = <<Delegate("bucketHandler", "handleSetCurrentState",
                               <<stripUnused(bucket)>>, newState, resultHandler)>>
    /\ lastCall' = ReadCall("handleSetActiveState", <<bucket>>, newState, resultHandler)
    /\ UNCHANGED <<feedQueue, submitted, completions, lockVars, dbVars, maintVars>>

handleGetBucketInfo(bucket, resultHandler) ==
    /\ delegated' = <<Delegate("bucketHandler", "handleGetBucketInfo", <<bucket>>, "none",
                               resultHandler)>>
    /\ lastCall' = ReadCall("handleGetBucketInfo", <<bucket>>, "none", resultHandler)
    /\ UNCHANGED <<feedQueue, submitted, completions, lockVars, dbVars, maintVars>>

(* Variant: the modified buckets are asked of the bucket handler. *)
handleGetModifiedBuckets_viaBucketHandler(resultHandler) ==
    /\ delegated' = <<Delegate("bucketHandler", "handleGetModifiedBuckets", <<>>,
                               "none", resultHandler)>>
    /\ lastCall' = ReadCall("handleGetModifiedBuckets", <<>>, "none", resultHandler)
    /\ UNCHANGED <<feedQueue, submitted, completions, lockVars, dbVars, maintVars>>

handleGetModifiedBuckets(resultHandler) ==
    /\ delegated' = <<Delegate("clusterStateHandler", "handleGetModifiedBuckets", <<>>,
                               "none", resultHandler)>>
    /\ lastCall' = ReadCall("handleGetModifiedBuckets", <<>>, "none", resultHandler)
    /\ UNCHANGED <<feedQueue, submitted, completions, lockVars, dbVars, maintVars>>

handleListActiveBuckets(resultHandler) ==
    /\ delegated' = <<Delegate("bucketHandler", "handleListActiveBuckets", <<>>, "none",
                               resultHandler)>>
    /\ lastCall' = ReadCall("handleListActiveBuckets", <<>>, "none", resultHandler)
    /\ UNCHANGED <<feedQueue, submitted, completions, lockVars, dbVars, maintVars>>

handlePopulateActiveBuckets(buckets, resultHandler) ==
    /\ delegated' = <<Delegate("bucketHandler", "handlePopulateActiveBuckets", buckets,
                               "none", resultHandler)>>
    /\ lastCall' = ReadCall("handlePopulateActiveBuckets", buckets, "none", resultHandler)
    /\ UNCHANGED <<feedQueue, submitted, completions, lockVars, dbVars, maintVars>>

----------------------------------------------------------------------------
(* FeedHandler: the single-writer pipeline takes the oldest pending         *)
(* operation, succeeds or fails on it, and signals its token once.          *)

FeedHandlerComplete(result) ==
    /\ feedQueue # <<>>
    /\ completions' = [completions EXCEPT ![Head(feedQueue).token] =
                           Append(@, result)]
    /\ feedQueue' = Tail(feedQueue)
    /\ UNCHANGED <<submitted, lastCall, delegated, lockVars, dbVars, maintVars>>

----------------------------------------------------------------------------
(* Bucket locking *)

Idle == [pc |-> "idle", bucket |-> 0, id |-> 0]

(* Variant: the database is asked for the guard of the id as passed. *)
lockBucket_rawId(c, bucket) ==
    /\ callers[c].pc = "idle"
    /\ callers' = [callers EXCEPT ![c] =
                       [pc |-> "waiting", bucket |-> bucket, id |-> bucket]]
    /\ UNCHANGED <<lockedBuckets, proxyVars, dbVars, maintVars>>

(* PersistenceHandlerProxy::lockBucket: asks the owning database for the    *)
(* guard of the stripped id; the caller blocks in the database until it is  *)
(* granted.                                                                 *)
lockBucket(c, bucket) ==
    /\ callers[c].pc = "idle"
    /\ callers' = [callers EXCEPT ![c] =
                       [pc |-> "waiting", bucket |-> bucket, id |-> stripUnused(bucket)]]
    /\ UNCHANGED <<lockedBuckets, proxyVars, dbVars, maintVars>>

(* DocumentDB::lockBucket: grants the guard once the id is not held. *)
DocumentDB_lockBucket(c) ==
    /\ callers[c].pc = "waiting"
    /\ callers[c].id \notin lockedBuckets
    /\ lockedBuckets' = lockedBuckets \cup {callers[c].id}
    /\ callers' = [callers EXCEPT ![c].pc = "holding"]
    /\ UNCHANGED <<proxyVars, dbVars, maintVars>>

(* ~BucketGuard: releases the id. *)
BucketGuard_release(c) ==
    /\ callers[c].pc = "holding"
    /\ lockedBuckets' = lockedBuckets \ {callers[c].id}
    /\ callers' = [callers EXCEPT ![c] = Idle]
    /\ UNCHANGED <<proxyVars, dbVars, maintVars>>

----------------------------------------------------------------------------
(* Lifetime of the proxy: it keeps the owning database alive. *)

Proxies == 1..MaxProxies

(* DocumentDB::retain / DocumentDB::release, on the count of retains. *)
retain(count) == count + 1

release(count) == count - 1

(* PersistenceHandlerProxy::PersistenceHandlerProxy *)
PersistenceHandlerProxy_construct(p) ==
    /\ p \notin liveProxies
    /\ liveProxies' = liveProxies \cup {p}
    /\ retainCount' = retain(retainCount)
    /\ UNCHANGED <<commit, proxyVars, lockVars, maintVars>>

(* Variant: the destructor leaves the database retained. *)
PersistenceHandlerProxy_destroy_noRelease(p) ==
    /\ p \in liveProxies
    /\ liveProxies' = liveProxies \ {p}
    /\ UNCHANGED <<retainCount, commit, proxyVars, lockVars, maintVars>>

(* PersistenceHandlerProxy::~PersistenceHandlerProxy *)
PersistenceHandlerProxy_destroy(p) ==
    /\ p \in liveProxies
    /\ liveProxies' = liveProxies \ {p}
    /\ retainCount' = release(retainCount)
    /\ UNCHANGED <<commit, proxyVars, lockVars, maintVars>>

----------------------------------------------------------------------------
(* Commit barrier *)

(* The tokens of the operations pending in the feed handler. *)
pendingTokens == { feedQueue[i].token : i \in 1..Len(feedQueue) }

(* Variant: the proxy returns without calling the database. *)
commitAndWait_noWait ==
    /\ commit.pc # "waiting"
    /\ liveProxies # {}
    /\ commit' = [pc |-> "returned", before |-> submitted, awaited |-> {}]
    /\ UNCHANGED <<liveProxies, retainCount, proxyVars, lockVars, maintVars>>

(* PersistenceHandlerProxy::commitAndWait: calls commitAndWait on the       *)
(* owning database and returns when that call returns.  before records the  *)
(* tokens submitted through the proxy when the call began.                  *)
commitAndWait ==
    /\ commit.pc # "waiting"
    /\ liveProxies # {}
    /\ commit' = [pc |-> "waiting", before |-> submitted, awaited |-> pendingTokens]
    /\ UNCHANGED <<liveProxies, retainCount, proxyVars, lockVars, maintVars>>

(* DocumentDB::commitAndWait returns: the feed work that was outstanding    *)
(* when it was called has been committed.                                   *)
DocumentDB_commitAndWait ==
    /\ commit.pc = "waiting"
    /\ commit.awaited \cap pendingTokens = {}
    /\ commit' = [commit EXCEPT !.pc = "returned"]
    /\ UNCHANGED <<liveProxies, retainCount, proxyVars, lockVars, maintVars>>

----------------------------------------------------------------------------
(* Maintenance configuration *)

Intervals == 1..MaxInterval

(* DocumentDBMaintenanceConfig together with the bucket state calculator    *)
(* (calc) handed to injectJobs.  bucketMoveInterval is the interval the     *)
(* bucket-move job class fixes for itself; it is not read from the config.  *)
Configs ==
    [lscDisabled : BOOLEAN,
     lscUseBucketExecutor : BOOLEAN,
     bmUseBucketExecutor : BOOLEAN,
     calc : {"null", "retired", "notRetired"},
     heartBeatInterval : Intervals,
     sessionCachePruneInterval : Intervals,
     pruneRemovedDocumentsInterval : Intervals,
     lscInterval : Intervals,
     attributeUsageSampleInterval : Intervals,
     bucketMoveInterval : Intervals]

(* calc ? calc->nodeRetired() : false *)
nodeRetired(cfg) == IF cfg.calc # "null" THEN cfg.calc = "retired" ELSE FALSE

----------------------------------------------------------------------------
(* Maintenance jobs *)

Job(class, subDBs, interval, retired) ==
    [class |-> class, subDBs |-> subDBs, interval |-> interval, nodeRetired |-> retired]

(* A job constructed with the disk/memory usage notifier and the blockable *)
(* job configuration, and with or without the bucket executor.             *)
BlockableJob(class, subDBs, interval, retired, useBucketExecutor) ==
    [class |-> class, subDBs |-> subDBs, interval |-> interval, nodeRetired |-> retired,
     diskMemUsageNotifier |-> TRUE, bucketExecutor |-> useBucketExecutor]

trackJob(tracker, job) ==
    [class |-> "JobTrackedMaintenanceJob", tracker |-> tracker, job |-> job]

IsTracked(job) == job.class = "JobTrackedMaintenanceJob"

(* The job itself, without its tracking decorator. *)
Inner(job) == IF IsTracked(job) THEN job.job ELSE job

TrackerOf(job) == IF IsTracked(job) THEN job.tracker ELSE "none"

(* The job listens to the disk/memory usage notifier. *)
isBlockable(job) == "diskMemUsageNotifier" \in DOMAIN Inner(job)

(* The job hands its work to the bucket executor as per-bucket tasks. *)
usesBucketExecutor(job) ==
    IF "bucketExecutor" \in DOMAIN Inner(job) THEN Inner(job).bucketExecutor ELSE FALSE

(* MaintenanceController::registerJobInMasterThread / registerJobInDefaultPool *)
registerJobInMasterThread(reg, job) == Append(reg, [thread |-> "master", job |-> job])

registerJobInDefaultPool(reg, job) == Append(reg, [thread |-> "default", job |-> job])

LidSpaceCompactionHandler(subDB) == subDB

(* Variant: the compaction strategy is chosen by the bucket-move flag. *)
injectLidSpaceCompactionJob_bucketMoveFlag(reg, cfg, lidHandler, tracker) ==
    LET job == IF cfg.bmUseBucketExecutor
               THEN BlockableJob("lidspace::CompactionJob", {lidHandler},
                                 cfg.lscInterval, nodeRetired(cfg), TRUE)
               ELSE BlockableJob("LidSpaceCompactionJob", {lidHandler},
                                 cfg.lscInterval, nodeRetired(cfg), FALSE)
    IN registerJobInMasterThread(reg, trackJob(tracker, job))

(* One iteration of the loop over lscHandlers. *)
injectLidSpaceCompactionJob(reg, cfg, lidHandler, tracker) ==
    LET job == IF cfg.lscUseBucketExecutor
               THEN BlockableJob("lidspace::CompactionJob", {lidHandler},
                                 cfg.lscInterval, nodeRetired(cfg), TRUE)
               ELSE BlockableJob("LidSpaceCompactionJob", {lidHandler},
                                 cfg.lscInterval, nodeRetired(cfg), FALSE)
    IN registerJobInMasterThread(reg, trackJob(tracker, job))

RECURSIVE injectLidSpaceCompactionJobs(_, _, _, _)
injectLidSpaceCompactionJobs(reg, cfg, lscHandlers, tracker) ==
    IF lscHandlers = <<>>
    THEN reg
    ELSE injectLidSpaceCompactionJobs(
             injectLidSpaceCompactionJob(reg, cfg, Head(lscHandlers), tracker),
             cfg, Tail(lscHandlers), tracker)

(* Variant: the bucket-move job is built without the usage notifier. *)
injectBucketMoveJob_noNotifier(reg, cfg) ==
    LET bmj == IF cfg.bmUseBucketExecutor
               THEN Job("BucketMoveJobV2", {"ready", "notready"}, cfg.bucketMoveInterval,
                        FALSE)
               ELSE Job("BucketMoveJob", {"ready", "notready"}, cfg.bucketMoveInterval,
                        FALSE)
    IN registerJobInMasterThread(reg, trackJob("bucketMove", bmj))

injectBucketMoveJob(reg, cfg) ==
    LET bmj == IF cfg.bmUseBucketExecutor
               THEN BlockableJob("BucketMoveJobV2", {"ready", "notready"},
                                 cfg.bucketMoveInterval, FALSE, TRUE)
               ELSE BlockableJob("BucketMoveJob", {"ready", "notready"},
                                 cfg.bucketMoveInterval, FALSE, FALSE)
    IN registerJobInMasterThread(reg, trackJob("bucketMove", bmj))

(* Variant: the third handler is bound to the ready sub-database again. *)
lidSpaceCompactionHandlers_readyTwice ==
    << LidSpaceCompactionHandler("ready"),
       LidSpaceCompactionHandler("removed"),
       LidSpaceCompactionHandler("ready") >>

(* The handlers pushed back in injectJobs, in order. *)
lidSpaceCompactionHandlers ==
    << LidSpaceCompactionHandler("ready"),
       LidSpaceCompactionHandler("removed"),
       LidSpaceCompactionHandler("notready") >>

(* The always-created jobs, statement by statement. *)
(* Variant: the heartbeat job is built with the session-cache-prune interval. *)
injectHeartBeatJob_pruneInterval(reg, cfg) ==
    registerJobInMasterThread(reg,
        Job("HeartBeatJob", {}, cfg.sessionCachePruneInterval, FALSE))

injectHeartBeatJob(reg, cfg) ==
    registerJobInMasterThread(reg, Job("HeartBeatJob", {}, cfg.heartBeatInterval, FALSE))

injectPruneSessionCacheJob(reg, cfg) ==
    registerJobInDefaultPool(reg,
        Job("PruneSessionCacheJob", {}, cfg.sessionCachePruneInterval, FALSE))

(* Variant: the pruning job is registered without its tracking decorator. *)
injectPruneRemovedDocumentsJob_untracked(reg, cfg) ==
    registerJobInMasterThread(reg,
        Job("PruneRemovedDocumentsJob", {"removed"}, cfg.pruneRemovedDocumentsInterval,
            FALSE))

injectPruneRemovedDocumentsJob(reg, cfg) ==
    LET pruneRDjob == Job("PruneRemovedDocumentsJob", {"removed"},
                          cfg.pruneRemovedDocumentsInterval, FALSE)
    IN registerJobInMasterThread(reg, trackJob("removedDocumentsPrune", pruneRDjob))

(* Variant: the attribute-usage-sampling job is handed to the default pool. *)
injectSampleAttributeUsageJob_defaultPool(reg, cfg) ==
    registerJobInDefaultPool(reg,
        Job("SampleAttributeUsageJob", {}, cfg.attributeUsageSampleInterval, FALSE))

injectSampleAttributeUsageJob(reg, cfg) ==
    registerJobInMasterThread(reg,
        Job("SampleAttributeUsageJob", {}, cfg.attributeUsageSampleInterval, FALSE))

(* Variant: a controller that already holds jobs is left as it is. *)
injectedJobs_onlyIntoEmpty(reg, cfg) ==
    LET r1 == injectHeartBeatJob(<<>>, cfg)
        r2 == injectPruneSessionCacheJob(r1, cfg)
        r3 == injectPruneRemovedDocumentsJob(r2, cfg)
        r4 == IF ~cfg.lscDisabled
              THEN injectLidSpaceCompactionJobs(r3, cfg, lidSpaceCompactionHandlers,
                                                "lidSpaceCompact")
              ELSE r3
        r5 == injectBucketMoveJob(r4, cfg)
    IN IF reg = <<>> THEN injectSampleAttributeUsageJob(r5, cfg) ELSE reg

(* Variant: the bucket-move job is injected inside the compaction branch. *)
injectedJobs_bucketMoveInBranch(reg, cfg) ==
    LET r1 == injectHeartBeatJob(reg, cfg)
        r2 == injectPruneSessionCacheJob(r1, cfg)
        r3 == injectPruneRemovedDocumentsJob(r2, cfg)
        r5 == IF ~cfg.lscDisabled
              THEN injectBucketMoveJob(
                       injectLidSpaceCompactionJobs(r3, cfg, lidSpaceCompactionHandlers,
                                                    "lidSpaceCompact"), cfg)
              ELSE r3
    IN injectSampleAttributeUsageJob(r5, cfg)

(* The registry after MaintenanceJobsInjector::injectJobs on registry reg. *)
injectedJobs(reg, cfg) ==
    LET r1 == injectHeartBeatJob(reg, cfg)
        r2 == injectPruneSessionCacheJob(r1, cfg)
        r3 == injectPruneRemovedDocumentsJob(r2, cfg)
        r4 == IF ~cfg.lscDisabled
              THEN injectLidSpaceCompactionJobs(r3, cfg, lidSpaceCompactionHandlers,
                                                "lidSpaceCompact")
              ELSE r3
        r5 == injectBucketMoveJob(r4, cfg)
    IN injectSampleAttributeUsageJob(r5, cfg)

Repeat(x, n) == [i \in 1..n |-> x]

(* MaintenanceJobsInjector::injectJobs.  A job that listens to the usage   *)
(* notifier is told the current resource state when it is constructed.      *)
injectJobs ==
    /\ registry' = injectedJobs(registry, config)
    /\ injections' = injections + 1
    /\ lastRun' = lastRun \o Repeat(now, Len(registry') - Len(registry))
    /\ runCount' = runCount \o Repeat(0, Len(registry') - Len(registry))
    /\ blocked' = [i \in 1..Len(registry') |->
                       IF i <= Len(registry) THEN blocked[i]
                       ELSE isBlockable(registry'[i].job) /\ overLimit]
    /\ workCount' = workCount \o Repeat(0, Len(registry') - Len(registry))
    /\ lastWork' = lastWork \o Repeat(0, Len(registry') - Len(registry))
    /\ failCount' = failCount \o Repeat(0, Len(registry') - Len(registry))
    /\ lastFail' = lastFail \o Repeat(0, Len(registry') - Len(registry))
    /\ UNCHANGED <<config, now, lastTick, overLimit, execVars, proxyVars, lockVars, dbVars>>

----------------------------------------------------------------------------
(* Maintenance controller: runs each registered job once its interval has   *)
(* elapsed since its last run.                                              *)

isDue(i) == now - lastRun[i] >= Inner(registry[i].job).interval

(* Variant: the first failing run ends the tick; later jobs are not run. *)
runsJob_abortOnFailure(i, failing) == isDue(i) /\ \A j \in failing : i <= j

(* The tick runs job i: the job is due, whatever becomes of other runs. *)
runsJob(i, failing) == isDue(i)

(* A run of job i does work unless the job is blocked. *)
doesWork(i, failing) == runsJob(i, failing) /\ ~blocked[i]

(* One tick: every due job is run.  A blocked job skips its work; the runs  *)
(* of the jobs in failing fail, which the controller records.               *)
TickWith(failing) ==
    /\ lastTick' = now
    /\ lastRun' = [i \in 1..Len(registry) |->
                       IF runsJob(i, failing) THEN now ELSE lastRun[i]]
    /\ runCount' = [i \in 1..Len(registry) |->
                        IF runsJob(i, failing) THEN runCount[i] + 1 ELSE runCount[i]]
    /\ workCount' = [i \in 1..Len(registry) |->
                         IF doesWork(i, failing) /\ i \notin failing THEN workCount[i] + 1
                                                             ELSE workCount[i]]
    /\ lastWork' = [i \in 1..Len(registry) |->
                        IF doesWork(i, failing) /\ i \notin failing THEN now ELSE lastWork[i]]
    /\ failCount' = [i \in 1..Len(registry) |->
                         IF doesWork(i, failing) /\ i \in failing THEN failCount[i] + 1
                                                          ELSE failCount[i]]
    /\ lastFail' = [i \in 1..Len(registry) |->
                        IF doesWork(i, failing) /\ i \in failing THEN now ELSE lastFail[i]]
    /\ UNCHANGED <<config, registry, injections, now, overLimit, blocked, execVars,
                   proxyVars, lockVars, dbVars>>

Tick == TickWith({})

AdvanceTime ==
    /\ now' = now + 1
    /\ UNCHANGED <<config, registry, injections, lastTick, lastRun, runCount,
                   jobVars, execVars, proxyVars, lockVars, dbVars>>

(* DiskMemUsageNotifier: a change of the resource state is delivered to     *)
(* every listening job, which becomes blocked or unblocked.                 *)
notifyDiskMemUsage(over) ==
    /\ over # overLimit
    /\ overLimit' = over
    /\ blocked' = [i \in 1..Len(registry) |-> isBlockable(registry[i].job) /\ over]
    /\ UNCHANGED <<config, registry, injections, now, lastTick, lastRun, runCount,
                   workCount, lastWork, failCount, lastFail, execVars,
                   proxyVars, lockVars, dbVars>>

----------------------------------------------------------------------------
(* Execution of runs *)

(* The controller hands a run of job i to the job's execution context: the *)
(* master thread's queue or the default pool.  A job has one run at a time. *)
submitRun(i) ==
    /\ i \in 1..Len(registry)
    /\ i \notin running
    /\ i \notin poolQueue
    /\ \A n \in 1..Len(masterQueue) : masterQueue[n] # i
    /\ IF registry[i].thread = "master"
       THEN masterQueue' = Append(masterQueue, i) /\ UNCHANGED poolQueue
       ELSE poolQueue' = poolQueue \cup {i} /\ UNCHANGED masterQueue
    /\ UNCHANGED <<running, tasks, ctrlVars, jobVars, proxyVars, lockVars, dbVars>>

(* The master-thread jobs whose run is executing. *)
masterRunning == { i \in running : registry[i].thread = "master" }

(* Variant: the master thread's context starts a run while another runs. *)
masterStart_noSerializer ==
    /\ masterQueue # <<>>
    /\ running' = running \cup {Head(masterQueue)}
    /\ masterQueue' = Tail(masterQueue)
    /\ UNCHANGED <<poolQueue, tasks, ctrlVars, jobVars, proxyVars, lockVars, dbVars>>

(* The master thread takes the oldest submitted run when it is free. *)
masterStart ==
    /\ masterQueue # <<>>
    /\ masterRunning = {}
    /\ running' = running \cup {Head(masterQueue)}
    /\ masterQueue' = Tail(masterQueue)
    /\ UNCHANGED <<poolQueue, tasks, ctrlVars, jobVars, proxyVars, lockVars, dbVars>>

(* A thread of the default pool takes a submitted run. *)
poolStart(i) ==
    /\ i \in poolQueue
    /\ poolQueue' = poolQueue \ {i}
    /\ running' = running \cup {i}
    /\ UNCHANGED <<masterQueue, tasks, ctrlVars, jobVars, proxyVars, lockVars, dbVars>>

(* The body of job i returns. *)
finishRun(i) ==
    /\ i \in running
    /\ running' = running \ {i}
    /\ UNCHANGED <<masterQueue, poolQueue, tasks, ctrlVars, jobVars,
                   proxyVars, lockVars, dbVars>>

Tasks == 1..MaxTasks

IdleTask == [pc |-> "idle", bucket |-> 0]

(* The bucket ids jobs work on: the normalized ones. *)
TaskBuckets == { stripUnused(b) : b \in RawBucketIds }

(* BucketExecutor::execute: the running body of a bucket-executor job hands *)
(* a task for one bucket to the executor.                                   *)
BucketExecutor_execute(k, bucket) ==
    /\ tasks[k].pc = "idle"
    /\ \E i \in running : usesBucketExecutor(registry[i].job)
    /\ tasks' = [tasks EXCEPT ![k] = [pc |-> "queued", bucket |-> bucket]]
    /\ UNCHANGED <<masterQueue, poolQueue, running, ctrlVars, jobVars,
                   proxyVars, lockVars, dbVars>>

(* The executor runs a task once it holds the guard of the task's bucket. *)
BucketTask_start(k) ==
    /\ tasks[k].pc = "queued"
    /\ tasks[k].bucket \notin lockedBuckets
    /\ lockedBuckets' = lockedBuckets \cup {tasks[k].bucket}
    /\ tasks' = [tasks EXCEPT ![k].pc = "running"]
    /\ UNCHANGED <<callers, masterQueue, poolQueue, running, ctrlVars, jobVars,
                   proxyVars, dbVars>>

(* The task is done; its guard is released. *)
BucketTask_finish(k) ==
    /\ tasks[k].pc = "running"
    /\ lockedBuckets' = lockedBuckets \ {tasks[k].bucket}
    /\ tasks' = [tasks EXCEPT ![k] = IdleTask]
    /\ UNCHANGED <<callers, masterQueue, poolQueue, running, ctrlVars, jobVars,
                   proxyVars, dbVars>>

----------------------------------------------------------------------------
(* Initial states *)

DefaultConfig ==
    [lscDisabled |-> FALSE, lscUseBucketExecutor |-> FALSE, bmUseBucketExecutor |-> FALSE,
     calc |-> "null", heartBeatInterval |-> 1, sessionCachePruneInterval |-> 1,
     pruneRemovedDocumentsInterval |-> 1, lscInterval |-> 1,
     attributeUsageSampleInterval |-> 1, bucketMoveInterval |-> 1]

ProxyIdle ==
    /\ feedQueue = <<>>
    /\ submitted = {}
    /\ completions = [t \in Tokens |-> <<>>]
    /\ lastCall = NoCall
    /\ delegated = <<>>

LockIdle ==
    /\ callers = [c \in Callers |-> Idle]
    /\ lockedBuckets = {}

CommitIdle == [pc |-> "idle", before |-> {}, awaited |-> {}]

(* One proxy has been constructed on the database. *)
DbIdle ==
    /\ liveProxies = {1}
    /\ retainCount = 1
    /\ commit = CommitIdle

MaintIdle ==
    /\ registry = <<>>
    /\ injections = 0
    /\ now = 0
    /\ lastTick = 0
    /\ lastRun = <<>>
    /\ runCount = <<>>
    /\ overLimit = FALSE
    /\ blocked = <<>>
    /\ workCount = <<>>
    /\ lastWork = <<>>
    /\ failCount = <<>>
    /\ lastFail = <<>>
    /\ masterQueue = <<>>
    /\ poolQueue = {}
    /\ running = {}
    /\ tasks = [k \in Tasks |-> IdleTask]

Init == ProxyIdle /\ LockIdle /\ DbIdle /\ MaintIdle /\ config \in Configs

----------------------------------------------------------------------------
(* The proxy's callers.  Calls are made on a live proxy, one at a time: a   *)
(* call returns before the next is made.  A write is given a token not used before, and  *)
(* at most maxOutstanding writes are outstanding at a time.                 *)

ProxyReturn ==
    /\ lastCall # NoCall
    /\ lastCall' = NoCall
    /\ delegated' = <<>>
    /\ UNCHANGED <<feedQueue, submitted, completions, lockVars, dbVars, maintVars>>

FreshTokens(maxOutstanding) ==
    IF lastCall = NoCall /\ liveProxies # {} /\ Len(feedQueue) < maxOutstanding
    THEN Tokens \ submitted
    ELSE {}

ReadyHandlers == IF lastCall = NoCall /\ liveProxies # {} THEN ResultHandlers ELSE {}

WriteCalls(maxOutstanding, buckets, timestamps, payloads) ==
    \/ \E token \in FreshTokens(maxOutstanding), b \in buckets, ts \in timestamps,
          p \in payloads : handlePut(token, b, ts, p)
    \/ \E token \in FreshTokens(maxOutstanding), b \in buckets, ts \in timestamps,
          p \in payloads : handleUpdate(token, b, ts, p)
    \/ \E token \in FreshTokens(maxOutstanding), b \in buckets, ts \in timestamps,
          p \in payloads : handleRemove(token, b, ts, p)
    \/ \E token \in FreshTokens(maxOutstanding), b \in buckets :
          handleCreateBucket(token, b)
    \/ \E token \in FreshTokens(maxOutstanding), b \in buckets :
          handleDeleteBucket(token, b)
    \/ \E token \in FreshTokens(maxOutstanding), b1 \in buckets, b2 \in buckets,
          b3 \in buckets : handleSplit(token, b1, b2, b3)
    \/ \E token \in FreshTokens(maxOutstanding), b1 \in buckets, b2 \in buckets,
          b3 \in buckets : handleJoin(token, b1, b2, b3)

ReadCalls ==
    \/ \E rh \in ReadyHandlers : handleListBuckets(rh)
    \/ \E rh \in ReadyHandlers, calc \in ClusterStates : handleSetClusterState(calc, rh)
    \/ \E rh \in ReadyHandlers, b \in RawBucketIds, st \in ActiveStates :
          handleSetActiveState(b, st, rh)
    \/ \E rh \in ReadyHandlers, b \in RawBucketIds : handleGetBucketInfo(b, rh)
    \/ \E rh \in ReadyHandlers : handleGetModifiedBuckets(rh)
    \/ \E rh \in ReadyHandlers : handleListActiveBuckets(rh)
    \/ \E rh \in ReadyHandlers, bs \in BucketLists : handlePopulateActiveBuckets(bs, rh)

FeedHandlerStep == \E result \in {"ok", "fail"} : FeedHandlerComplete(result)

(* Dispatch: any write, by a caller with no write outstanding, and any read. *)
InitProxy == Init /\ config = DefaultConfig

NextProxy ==
    \/ WriteCalls(1, RawBucketIds, Timestamps, Payloads)
    \/ ReadCalls
    \/ ProxyReturn

SpecProxy == InitProxy /\ [][NextProxy]_vars

(* Feed pipeline: up to MaxFeed writes outstanding, on one raw bucket id,   *)
(* with a caller of commitAndWait.                                           *)
FeedBuckets == { BucketId(MaxUsedBits, (2 ^ IdWidth) - 1) }

NextFeed ==
    \/ WriteCalls(MaxFeed, FeedBuckets, {10}, {"p1"})
    \/ ProxyReturn
    \/ FeedHandlerStep
    \/ commitAndWait
    \/ DocumentDB_commitAndWait

SpecFeed == InitProxy /\ [][NextFeed]_vars /\ WF_vars(FeedHandlerStep)

(* Bucket locking: callers lock, are granted and release. *)
NextLock ==
    \/ \E c \in Callers, b \in RawBucketIds : lockBucket(c, b)
    \/ \E c \in Callers : DocumentDB_lockBucket(c)
    \/ \E c \in Callers : BucketGuard_release(c)

SpecLock == InitProxy /\ [][NextLock]_vars

(* Proxy lifetime: proxies are constructed and destroyed around calls. *)
NextLife ==
    \/ \E p \in Proxies : PersistenceHandlerProxy_construct(p)
    \/ \E p \in Proxies : PersistenceHandlerProxy_destroy(p)
    \/ WriteCalls(1, FeedBuckets, {10}, {"p1"})
    \/ ReadCalls
    \/ ProxyReturn

SpecLife == InitProxy /\ [][NextLife]_vars

(* Job injection, for every configuration. *)
InjectCall == injections < MaxInjections /\ injectJobs

NextInject == InjectCall

SpecInject == Init /\ [][NextInject]_vars

(* Controller runs: lid-space compaction disabled, legacy bucket move. *)
CtrlConfigs ==
    { cfg \in Configs : /\ cfg.lscDisabled
                        /\ ~cfg.lscUseBucketExecutor
                        /\ ~cfg.bmUseBucketExecutor
                        /\ cfg.calc = "null"
                        /\ cfg.lscInterval = 1 }

InitCtrl == Init /\ config \in CtrlConfigs

ClockStep == now < MaxTime /\ AdvanceTime

NextCtrl ==
    \/ InjectCall
    \/ Tick
    \/ ClockStep

SpecCtrl == InitCtrl /\ [][NextCtrl]_vars

(* Blockable jobs: one injection, ticks, and resource notifications. *)
BlockConfigs ==
    { cfg \in Configs : /\ cfg.calc = "null"
                        /\ cfg.heartBeatInterval = 1
                        /\ cfg.sessionCachePruneInterval = 1
                        /\ cfg.pruneRemovedDocumentsInterval = 1
                        /\ cfg.attributeUsageSampleInterval = 1 }

InitBlock == Init /\ config \in BlockConfigs

InjectOnce == injections = 0 /\ injectJobs

NextBlock ==
    \/ InjectOnce
    \/ Tick
    \/ ClockStep
    \/ \E over \in BOOLEAN : notifyDiskMemUsage(over)

SpecBlock == InitBlock /\ [][NextBlock]_vars

(* Failing runs: one injection, ticks on which one run may fail. *)
FailConfigs ==
    { cfg \in CtrlConfigs : /\ cfg.sessionCachePruneInterval = 1
                            /\ cfg.pruneRemovedDocumentsInterval = 1
                            /\ cfg.attributeUsageSampleInterval = 1 }

InitFail == Init /\ config \in FailConfigs

(* The runs that can fail on a tick: none, or the run of one job at work. *)
FailureChoices ==
    {{}} \cup { {i} : i \in { j \in 1..Len(registry) : isDue(j) /\ ~blocked[j] } }

NextFail ==
    \/ InjectOnce
    \/ \E failing \in FailureChoices : TickWith(failing)
    \/ ClockStep

SpecFail == InitFail /\ [][NextFail]_vars

(* Execution contexts: one injection with compaction disabled; runs on the *)
(* master thread and in the default pool, tasks on one bucket.             *)
ExecConfigs ==
    { cfg \in BlockConfigs : /\ cfg.lscDisabled
                             /\ ~cfg.lscUseBucketExecutor
                             /\ cfg.lscInterval = 1
                             /\ cfg.bucketMoveInterval = 1 }

InitExec == Init /\ config \in ExecConfigs

ExecBuckets == { stripUnused(BucketId(MaxUsedBits, (2 ^ IdWidth) - 1)) }

NextExec ==
    \/ InjectOnce
    \/ \E i \in 1..Len(registry) : submitRun(i)
    \/ masterStart
    \/ \E i \in poolQueue : poolStart(i)
    \/ \E i \in running : finishRun(i)
    \/ \E k \in Tasks, b \in ExecBuckets : BucketExecutor_execute(k, b)
    \/ \E k \in Tasks : BucketTask_start(k)
    \/ \E k \in Tasks : BucketTask_finish(k)

SpecExec == InitExec /\ [][NextExec]_vars

(* Bucket tasks: the bucket-executor bucket-move job runs and hands out    *)
(* tasks on any bucket, next to one lockBucket caller and to writes through *)
(* the proxy on one raw bucket id.                                          *)
TaskConfigs == { cfg \in ExecConfigs : cfg.bmUseBucketExecutor }

InitTasks == Init /\ config \in TaskConfigs

TaskCallers == {1}

NextTasks ==
    \/ InjectOnce
    \/ \E i \in { j \in 1..Len(registry) : usesBucketExecutor(registry[j].job) } :
          submitRun(i)
    \/ masterStart
    \/ \E i \in running : finishRun(i)
    \/ \E k \in Tasks, b \in TaskBuckets : BucketExecutor_execute(k, b)
    \/ \E k \in Tasks : BucketTask_start(k)
    \/ \E k \in Tasks : BucketTask_finish(k)
    \/ \E c \in TaskCallers, b \in RawBucketIds : lockBucket(c, b)
    \/ \E c \in TaskCallers : DocumentDB_lockBucket(c)
    \/ \E c \in TaskCallers : BucketGuard_release(c)
    \/ WriteCalls(1, FeedBuckets, {10}, {"p1"})
    \/ ProxyReturn
    \/ FeedHandlerStep

SpecTasks == InitTasks /\ [][NextTasks]_vars

Next == NextProxy \/ NextFeed \/ NextLock \/ NextLife \/ NextCtrl \/ NextBlock \/ NextFail \/ NextExec \/ NextTasks

Spec == Init /\ [][Next]_vars

----------------------------------------------------------------------------
(* Properties of the proxy's write path *)

WriteOps == {"handlePut", "handleUpdate", "handleRemove", "handleCreateBucket",
             "handleDeleteBucket", "handleSplit", "handleJoin"}

TagOf(op) ==
    CASE op = "handlePut" -> "Put"
      [] op = "handleUpdate" -> "Update"
      [] op = "handleRemove" -> "Remove"
      [] op = "handleCreateBucket" -> "CreateBucket"
      [] op = "handleDeleteBucket" -> "DeleteBucket"
      [] op = "handleSplit" -> "SplitBucket"
      [] op = "handleJoin" -> "JoinBuckets"

(* The feed-queue entry a write call is to produce: the call's tag, its     *)
(* bucket ids normalized in argument order, its timestamp, payload, token.  *)
ExpectedEntry(call) ==
    [token |-> call.token,
     op |-> [type |-> TagOf(call.op),
             buckets |-> [i \in 1..Len(call.buckets) |-> stripUnused(call.buckets[i])],
             timestamp |-> call.timestamp,
             payload |-> call.payload]]

(* C1: a call of one of the seven write operations appends exactly one      *)
(* entry to the feed queue: the FeedOperation with the call's tag, each     *)
(* bucket id the normalized form of the corresponding argument in order,    *)
(* the caller's timestamp and payload unchanged, under the caller's token.  *)
C1_WriteSubmitsOneTaggedOperation ==
    [][(lastCall = NoCall /\ lastCall'.op \in WriteOps) =>
           feedQueue' = Append(feedQueue, ExpectedEntry(lastCall'))]_vars

(* A split with three different raw ids, one of them not normalized, has    *)
(* been submitted.                                                          *)
C1_Witness ==
    /\ lastCall.op = "handleSplit"
    /\ Cardinality({lastCall.buckets[i] : i \in 1..3}) = 3
    /\ \E i \in 1..3 : ~IsNormalized(lastCall.buckets[i])
    /\ feedQueue = <<ExpectedEntry(lastCall)>>

(* C2: no token ever receives two completion signals, and every token       *)
(* handed to a write operation eventually has received exactly one,         *)
(* whether the feed handler succeeds or fails on the operation.             *)
C2_ExactlyOneCompletion ==
    /\ [](\A t \in Tokens : Len(completions[t]) <= 1)
    /\ \A t \in Tokens : (t \in submitted) ~> (Len(completions[t]) = 1)

(* One token completed with success and another with failure. *)
C2_Witness ==
    \E t1 \in Tokens, t2 \in Tokens :
        /\ {t1, t2} \subseteq submitted
        /\ completions[t1] = <<"ok">>
        /\ completions[t2] = <<"fail">>

----------------------------------------------------------------------------
(* Properties of bucket locking *)

Holding(c) == callers[c].pc = "holding"

SameBucket(c, d) == stripUnused(callers[c].bucket) = stripUnused(callers[d].bucket)

(* C3: two lockBucket callers of the same bucket never hold a guard at the  *)
(* same time, and a caller is granted the guard only in a step from a state *)
(* where no other caller holds the guard of that bucket.                    *)
C3_LockBucketMutualExclusion ==
    /\ [](\A c \in Callers, d \in Callers :
              (c # d /\ Holding(c) /\ Holding(d)) => ~SameBucket(c, d))
    /\ [][\A c \in Callers :
              (~Holding(c) /\ callers'[c].pc = "holding") =>
                  \A d \in Callers \ {c} :
                      ~(Holding(d) /\ stripUnused(callers[d].bucket)
                                        = stripUnused(callers'[c].bucket))]_vars

(* One caller holds the guard of a bucket while another is blocked in       *)
(* lockBucket on the same bucket.                                           *)
C3_Witness ==
    \E c \in Callers, d \in Callers :
        /\ c # d
        /\ Holding(c)
        /\ callers[d].pc = "waiting"
        /\ SameBucket(c, d)

----------------------------------------------------------------------------
(* Properties of the jobs injector *)

LidSpaceCompactionClasses == {"LidSpaceCompactionJob", "lidspace::CompactionJob"}
BucketMoveClasses == {"BucketMoveJob", "BucketMoveJobV2"}

(* Positions in the registry of the jobs of the given classes. *)
JobsOf(classes) == { i \in 1..Len(registry) : Inner(registry[i].job).class \in classes }

(* C4: with lid-space compaction disabled, injectJobs registers no          *)
(* lid-space-compaction job and the bucket-move job exactly once per        *)
(* invocation, whatever the bucket-executor flags.                          *)
C4_DisabledCompactionKeepsBucketMove ==
    (config.lscDisabled /\ injections >= 1) =>
        /\ JobsOf(LidSpaceCompactionClasses) = {}
        /\ Cardinality(JobsOf(BucketMoveClasses)) = injections

(* injectJobs has run once with compaction disabled and both                *)
(* bucket-executor flags set.                                               *)
C4_Witness ==
    /\ injections = 1
    /\ config.lscDisabled
    /\ config.lscUseBucketExecutor
    /\ config.bmUseBucketExecutor
    /\ Cardinality(JobsOf(BucketMoveClasses)) = 1

(* C5: every registered bucket-move job is the bucket-executor variant      *)
(* exactly if the bucket-move flag is set, and every registered             *)
(* lid-space-compaction job is the bucket-executor variant exactly if the   *)
(* lid-space-compaction flag is set; either family follows its own flag.    *)
C5_VariantFollowsOwnFlag ==
    injections >= 1 =>
        /\ JobsOf(BucketMoveClasses) # {}
        /\ \A i \in JobsOf(BucketMoveClasses) :
               Inner(registry[i].job).class =
                   IF config.bmUseBucketExecutor THEN "BucketMoveJobV2" ELSE "BucketMoveJob"
        /\ ~config.lscDisabled => JobsOf(LidSpaceCompactionClasses) # {}
        /\ \A i \in JobsOf(LidSpaceCompactionClasses) :
               Inner(registry[i].job).class =
                   IF config.lscUseBucketExecutor THEN "lidspace::CompactionJob"
                                                  ELSE "LidSpaceCompactionJob"

(* Mixed flags: legacy bucket move next to bucket-executor compaction. *)
C5_Witness ==
    /\ injections = 1
    /\ ~config.lscDisabled
    /\ config.lscUseBucketExecutor
    /\ ~config.bmUseBucketExecutor
    /\ \E i \in JobsOf(BucketMoveClasses) : Inner(registry[i].job).class = "BucketMoveJob"
    /\ \E i \in JobsOf(LidSpaceCompactionClasses) :
           Inner(registry[i].job).class = "lidspace::CompactionJob"

(* C6: with lid-space compaction not disabled, each injectJobs invocation   *)
(* registers exactly three lid-space-compaction jobs, one bound to each of  *)
(* the ready, not-ready and removed sub-databases, all of them wrapped with *)
(* the one lid-space-compaction tracker.                                    *)
C6_ThreeCompactionJobsOneTracker ==
    (~config.lscDisabled /\ injections >= 1) =>
        /\ Cardinality(JobsOf(LidSpaceCompactionClasses)) = 3 * injections
        /\ \A subDB \in {"ready", "notready", "removed"} :
               Cardinality({ i \in JobsOf(LidSpaceCompactionClasses) :
                               Inner(registry[i].job).subDBs = {subDB} }) = injections
        /\ \A i \in JobsOf(LidSpaceCompactionClasses) : IsTracked(registry[i].job)
        /\ { TrackerOf(registry[i].job) : i \in JobsOf(LidSpaceCompactionClasses) }
               = {"lidSpaceCompact"}

(* injectJobs has run once with compaction enabled. *)
C6_Witness ==
    /\ injections = 1
    /\ ~config.lscDisabled
    /\ Cardinality(JobsOf(LidSpaceCompactionClasses)) = 3

AlwaysCreatedClasses == {"HeartBeatJob", "PruneSessionCacheJob",
                         "PruneRemovedDocumentsJob", "SampleAttributeUsageJob"}

EachCreatedOncePerInjection ==
    \A class \in AlwaysCreatedClasses : Cardinality(JobsOf({class})) = injections

(* C7 as claimed: each of the four always-created jobs is created once per  *)
(* invocation and is wrapped in a tracking decorator when registered.       *)
C7_AllFourTracked ==
    injections >= 1 =>
        /\ EachCreatedOncePerInjection
        /\ \A i \in JobsOf(AlwaysCreatedClasses) : IsTracked(registry[i].job)

(* C7 as amended: each of the four always-created jobs is created once per  *)
(* invocation; of the four only the removed-document-pruning job is wrapped *)
(* in a tracking decorator (as every lid-space-compaction and bucket-move   *)
(* job is), the heartbeat, session-cache-pruning and                        *)
(* attribute-usage-sampling jobs are registered unwrapped.                  *)
C7_OnlyPruneRemovedTracked ==
    injections >= 1 =>
        /\ EachCreatedOncePerInjection
        /\ \A i \in JobsOf(AlwaysCreatedClasses) :
               IsTracked(registry[i].job)
                   <=> Inner(registry[i].job).class = "PruneRemovedDocumentsJob"
        /\ \A i \in JobsOf({"PruneRemovedDocumentsJob"}) :
               TrackerOf(registry[i].job) = "removedDocumentsPrune"
        /\ \A i \in JobsOf(LidSpaceCompactionClasses \cup BucketMoveClasses) :
               IsTracked(registry[i].job)

(* injectJobs has run once: the heartbeat job is registered bare and the    *)
(* removed-document-pruning job wrapped.                                    *)
C7_Witness ==
    /\ injections = 1
    /\ \E i \in JobsOf({"HeartBeatJob"}) : ~IsTracked(registry[i].job)
    /\ \E i \in JobsOf({"PruneRemovedDocumentsJob"}) : IsTracked(registry[i].job)

----------------------------------------------------------------------------
(* Properties of bucket-id normalization and of the read path *)

AllNormalized(buckets) == \A i \in 1..Len(buckets) : IsNormalized(buckets[i])

(* C8: every bucket id that a write operation, setActiveState, getBucketInfo *)
(* or lockBucket hands to the feed handler, the bucket handler or the        *)
(* owning database is in normalized form.                                    *)
C8_OnlyNormalizedIdsInternally ==
    /\ \A i \in 1..Len(feedQueue) : AllNormalized(feedQueue[i].op.buckets)
    /\ lastCall.op \in {"handleSetActiveState", "handleGetBucketInfo"} =>
           \A i \in 1..Len(delegated) : AllNormalized(delegated[i].buckets)
    /\ \A c \in Callers : callers[c].pc # "idle" => IsNormalized(callers[c].id)
    /\ \A b \in lockedBuckets : IsNormalized(b)

ReadOps == {"handleListBuckets", "handleGetBucketInfo", "handleListActiveBuckets",
            "handleGetModifiedBuckets", "handlePopulateActiveBuckets",
            "handleSetClusterState", "handleSetActiveState"}

CollaboratorOf(op) ==
    IF op \in {"handleSetClusterState", "handleGetModifiedBuckets"}
    THEN "clusterStateHandler"
    ELSE "bucketHandler"

(* C9: a call of one of the seven read/query operations leaves the feed     *)
(* queue (and the set of submitted tokens) as it was and makes exactly one  *)
(* call on its collaborator: the cluster-state handler for setClusterState  *)
(* and getModifiedBuckets, the bucket handler for the other five, with the  *)
(* caller's result handler.                                                 *)
C9_ReadsBypassFeedQueue ==
    [][(lastCall = NoCall /\ lastCall'.op \in ReadOps) =>
           /\ feedQueue' = feedQueue
           /\ submitted' = submitted
           /\ Len(delegated') = 1
           /\ delegated'[1].handler = CollaboratorOf(lastCall'.op)
           /\ delegated'[1].resultHandler = lastCall'.resultHandler]_vars

(* getModifiedBuckets was called while a write was pending in the feed      *)
(* queue, and went to the cluster-state handler.                            *)
C9_Witness ==
    /\ lastCall.op = "handleGetModifiedBuckets"
    /\ Len(feedQueue) = 1
    /\ Len(delegated) = 1
    /\ delegated[1].handler = "clusterStateHandler"

----------------------------------------------------------------------------
(* Properties of the controller's scheduling *)

(* The interval the configuration gives the job of a class. *)
ConfiguredInterval(class) ==
    CASE class = "HeartBeatJob" -> config.heartBeatInterval
      [] class = "PruneSessionCacheJob" -> config.sessionCachePruneInterval
      [] class = "PruneRemovedDocumentsJob" -> config.pruneRemovedDocumentsInterval
      [] class \in LidSpaceCompactionClasses -> config.lscInterval
      [] class \in BucketMoveClasses -> config.bucketMoveInterval
      [] class = "SampleAttributeUsageJob" -> config.attributeUsageSampleInterval

IntervalOf(i) == ConfiguredInterval(Inner(registry[i].job).class)

IsTickStep == now' = now /\ registry' = registry

(* C10: a tick before the configured interval has elapsed since a job's     *)
(* last run does not run the job; a tick after it has elapsed runs the job  *)
(* exactly once and makes that tick its last run; no other step runs a job. *)
C10_RunsOnlyWhenIntervalElapsed ==
    [][\A i \in 1..Len(registry) :
           /\ (IsTickStep /\ now < lastRun[i] + IntervalOf(i)) =>
                  (runCount'[i] = runCount[i] /\ lastRun'[i] = lastRun[i])
           /\ (IsTickStep /\ now > lastRun[i] + IntervalOf(i)) =>
                  (runCount'[i] = runCount[i] + 1 /\ lastRun'[i] = now)
           /\ ~IsTickStep => (runCount'[i] = runCount[i] /\ lastRun'[i] = lastRun[i])]_vars

(* A job has run once, at its last run t, and the controller has ticked    *)
(* again at a later instant before t plus the job's interval without        *)
(* running it.                                                              *)
C10_Witness ==
    \E i \in 1..Len(registry) :
        /\ runCount[i] = 1
        /\ lastTick = now
        /\ lastRun[i] < now
        /\ now < lastRun[i] + IntervalOf(i)

----------------------------------------------------------------------------
(* Properties of repeated injection and of the registration order *)

(* The number of jobs one injectJobs invocation registers. *)
JobsPerInjection == IF config.lscDisabled THEN 5 ELSE 8

(* C16: after k invocations of injectJobs with the same configuration the   *)
(* registry holds exactly k times the jobs of one invocation: k times as    *)
(* many entries, the entries of the first invocation repeated k times, none *)
(* replaced or dropped as a duplicate.                                      *)
C16_InjectJobsAccumulates ==
    /\ Len(registry) = injections * JobsPerInjection
    /\ \A i \in 1..Len(registry) :
           i > JobsPerInjection => registry[i] = registry[i - JobsPerInjection]
    /\ \A class \in AlwaysCreatedClasses : Cardinality(JobsOf({class})) = injections

(* injectJobs has run twice with compaction enabled: sixteen jobs, two of   *)
(* them heartbeat jobs equal to one another.                                *)
C16_Witness ==
    /\ injections = 2
    /\ ~config.lscDisabled
    /\ Len(registry) = 16
    /\ Cardinality(JobsOf({"HeartBeatJob"})) = 2
    /\ registry[1] = registry[9]

(* The job classes one invocation registers, with their threads, in order. *)
ExpectedRegistrations ==
    LET lsc == IF config.lscUseBucketExecutor THEN "lidspace::CompactionJob"
                                              ELSE "LidSpaceCompactionJob"
        bm == IF config.bmUseBucketExecutor THEN "BucketMoveJobV2" ELSE "BucketMoveJob"
        compaction == IF config.lscDisabled
                      THEN <<>>
                      ELSE << <<"master", lsc, {"ready"}>>,
                              <<"master", lsc, {"removed"}>>,
                              <<"master", lsc, {"notready"}>> >>
    IN << <<"master", "HeartBeatJob", {}>>,
          <<"default", "PruneSessionCacheJob", {}>>,
          <<"master", "PruneRemovedDocumentsJob", {"removed"}>> >>
       \o compaction
       \o << <<"master", bm, {"ready", "notready"}>>,
             <<"master", "SampleAttributeUsageJob", {}>> >>

(* C19: for every configuration injectJobs registers only the               *)
(* session-cache-pruning job in the default pool; the heartbeat,            *)
(* removed-document-pruning, lid-space-compaction, bucket-move and          *)
(* attribute-usage-sampling jobs, legacy or bucket-executor variant, are    *)
(* registered on the master thread, in that order, the compaction jobs in   *)
(* the order ready, removed, not-ready.                                     *)
C19_RegistrationThreadsAndOrder ==
    /\ Len(registry) = injections * Len(ExpectedRegistrations)
    /\ \A i \in 1..Len(registry) :
           LET e == ExpectedRegistrations[((i - 1) % Len(ExpectedRegistrations)) + 1]
           IN /\ registry[i].thread = e[1]
              /\ Inner(registry[i].job).class = e[2]
              /\ Inner(registry[i].job).subDBs = e[3]
    /\ \A i \in 1..Len(registry) :
           registry[i].thread = "default"
               <=> Inner(registry[i].job).class = "PruneSessionCacheJob"

(* injectJobs has run once with bucket-executor compaction and legacy       *)
(* bucket move: the second of eight entries is the only one in the default  *)
(* pool, entries four to six are the compaction jobs.                       *)
C19_Witness ==
    /\ injections = 1
    /\ ~config.lscDisabled
    /\ config.lscUseBucketExecutor
    /\ ~config.bmUseBucketExecutor
    /\ Len(registry) = 8
    /\ { i \in 1..8 : registry[i].thread = "default" } = {2}
    /\ JobsOf(LidSpaceCompactionClasses) = {4, 5, 6}
    /\ registry[7].thread = "master"

----------------------------------------------------------------------------
(* Properties of lockBucket on raw bucket ids *)

Waiting(c) == callers[c].pc = "waiting"

(* C20: lockBucket locks the normalized id: two callers whose raw bucket    *)
(* arguments differ but normalize to the same id never both hold a guard,   *)
(* and a caller blocked in lockBucket can be granted its guard whenever no  *)
(* other caller holds a guard whose bucket normalizes to the same id, so    *)
(* callers of buckets that normalize to different ids never block each      *)
(* other.                                                                   *)
C20_LockContentionByNormalizedId ==
    /\ \A c \in Callers, d \in Callers :
           (/\ c # d
            /\ callers[c].bucket # callers[d].bucket
            /\ stripUnused(callers[c].bucket) = stripUnused(callers[d].bucket))
               => ~(Holding(c) /\ Holding(d))
    /\ \A c \in Callers :
           (/\ Waiting(c)
            /\ \A d \in Callers \ {c} :
                   Holding(d) => stripUnused(callers[d].bucket)
                                     # stripUnused(callers[c].bucket))
               => ENABLED DocumentDB_lockBucket(c)

(* One caller holds the guard asked for with a raw id, a second is blocked  *)
(* on a different raw id that normalizes to the same id, and a third holds  *)
(* the guard of a bucket that normalizes to another id.                     *)
C20_Witness ==
    \E c \in Callers, d \in Callers, e \in Callers :
        /\ Holding(c)
        /\ Waiting(d)
        /\ Holding(e)
        /\ callers[c].bucket # callers[d].bucket
        /\ ~IsNormalized(callers[c].bucket)
        /\ stripUnused(callers[c].bucket) = stripUnused(callers[d].bucket)
        /\ stripUnused(callers[e].bucket) # stripUnused(callers[c].bucket)

----------------------------------------------------------------------------
(* Properties of stripUnused as a function *)

(* C17: normalizing a bucket id twice gives what normalizing it once gives: *)
(* for every raw bucket id of a call, and for every id the feed handler was *)
(* handed (each the normalization of a raw id), stripUnused leaves the      *)
(* normalized id as it is.                                                  *)
C17_StripUnusedIdempotent ==
    /\ \A i \in 1..Len(lastCall.buckets) :
           stripUnused(stripUnused(lastCall.buckets[i])) = stripUnused(lastCall.buckets[i])
    /\ \A i \in 1..Len(feedQueue) :
           \A j \in 1..Len(feedQueue[i].op.buckets) :
               stripUnused(feedQueue[i].op.buckets[j]) = feedQueue[i].op.buckets[j]

(* A put on a raw id with a bit set above its used bits is pending: the     *)
(* feed handler holds a different, normalized id.                           *)
C17_Witness ==
    /\ lastCall.op = "handlePut"
    /\ ~IsNormalized(lastCall.buckets[1])
    /\ Len(feedQueue) = 1
    /\ feedQueue[1].op.buckets = <<stripUnused(lastCall.buckets[1])>>
    /\ feedQueue[1].op.buckets # lastCall.buckets

----------------------------------------------------------------------------
(* Properties of the proxy's lifetime *)

(* C18: the number of retains of the owning database not yet released       *)
(* equals the number of live proxies, so it is never negative and is zero   *)
(* once every proxy has been destroyed; constructing a proxy adds exactly   *)
(* one retain, destroying one releases exactly one, and no other step       *)
(* changes the count.                                                       *)
C18_RetainedWhileProxyLives ==
    /\ [](retainCount = Cardinality(liveProxies) /\ retainCount >= 0)
    /\ [][/\ (\E p \in Proxies : p \notin liveProxies /\ liveProxies' = liveProxies \cup {p})
                 => retainCount' = retainCount + 1
          /\ (\E p \in liveProxies : liveProxies' = liveProxies \ {p})
                 => retainCount' = retainCount - 1
          /\ liveProxies' = liveProxies => retainCount' = retainCount]_vars

(* The first proxy has been destroyed after a write went through it, and a *)
(* second proxy, constructed since, is in a call.                           *)
C18_Witness ==
    /\ liveProxies = {2}
    /\ retainCount = 1
    /\ submitted # {}
    /\ lastCall.op \in ReadOps

----------------------------------------------------------------------------
(* Properties of the commit barrier *)

(* The feed handler is done with the operation of token t. *)
Committed(t) == Len(completions[t]) = 1

(* C12: when commitAndWait has returned, every feed operation submitted     *)
(* through the proxy before the call began has been committed; the call     *)
(* returns only in a step from a state where none of them is pending, and   *)
(* operations submitted after the call began do not hold it back.           *)
C12_CommitAndWaitIsBarrier ==
    /\ [](commit.pc = "returned" => \A t \in commit.before : Committed(t))
    /\ [][(commit.pc # "returned" /\ commit'.pc = "returned") =>
              \A t \in commit'.before : Committed(t) /\ t \notin pendingTokens]_vars

(* commitAndWait began with one operation pending and has returned after    *)
(* its commit, while an operation submitted later is still pending.         *)
C12_Witness ==
    /\ commit.pc = "returned"
    /\ commit.before # {}
    /\ commit.awaited # {}
    /\ \E t \in submitted \ commit.before : t \in pendingTokens

----------------------------------------------------------------------------
(* Properties of blockable jobs *)

BlockableClasses == LidSpaceCompactionClasses \cup BucketMoveClasses

(* A tick: the clock, the registry and the resource state stay as they are. *)
IsJobTick == now' = now /\ registry' = registry /\ overLimit' = overLimit

(* C11: while the last resource notification is over-limit, a tick on which *)
(* a bucket-move or lid-space-compaction job is due performs no work unit   *)
(* of that job; once the last notification is under-limit again, a tick on  *)
(* which the job is due performs exactly one work unit of it; no other step *)
(* performs work.                                                           *)
C11_BlockedJobsSkipWork ==
    [][\A i \in JobsOf(BlockableClasses) :
           /\ (IsJobTick /\ now >= lastRun[i] + IntervalOf(i) /\ overLimit) =>
                  workCount'[i] = workCount[i]
           /\ (IsJobTick /\ now >= lastRun[i] + IntervalOf(i) /\ ~overLimit) =>
                  workCount'[i] = workCount[i] + 1
           /\ ~IsJobTick => workCount'[i] = workCount[i]]_vars

(* A blockable job was run once without doing work, and has now, under      *)
(* limit again, been run a second time and done its first work unit.        *)
C11_Witness ==
    \E i \in JobsOf(BlockableClasses) :
        /\ runCount[i] = 2
        /\ workCount[i] = 1
        /\ lastWork[i] = now
        /\ lastRun[i] = now
        /\ ~overLimit

----------------------------------------------------------------------------
(* Properties of failing runs *)

(* C15: a failed run is recorded against the job that failed, on the tick   *)
(* that ran it, and changes nothing else: on every tick every job whose     *)
(* interval has elapsed is run, whether or not it or another job has failed *)
(* before or fails on this tick, and no job is unregistered.                *)
C15_FailedRunIsIsolated ==
    [][IsJobTick =>
           /\ registry' = registry
           /\ \A i \in 1..Len(registry) :
                  /\ now >= lastRun[i] + IntervalOf(i) =>
                         (runCount'[i] = runCount[i] + 1 /\ lastRun'[i] = now)
                  /\ now < lastRun[i] + IntervalOf(i) =>
                         (runCount'[i] = runCount[i] /\ lastRun'[i] = lastRun[i])
                  /\ failCount'[i] # failCount[i] =>
                         /\ failCount'[i] = failCount[i] + 1
                         /\ lastFail'[i] = now
                         /\ runCount'[i] = runCount[i] + 1]_vars

(* A job's first run failed and was recorded; the job has been run again    *)
(* at a later tick, and a job registered after it ran on the tick of the    *)
(* failure.                                                                 *)
C15_Witness ==
    \E i \in 1..Len(registry), j \in 1..Len(registry) :
        /\ i < j
        /\ failCount[i] = 1
        /\ runCount[i] = 2
        /\ lastFail[i] < lastRun[i]
        /\ workCount[i] = 1
        /\ lastWork[j] = lastFail[i]

----------------------------------------------------------------------------
(* Properties of the execution contexts *)

(* The runs that start in a step. *)
StartsRun(i) == i \notin running /\ i \in running'

(* C13: at most one job registered on the master thread executes at any     *)
(* time, whatever default-pool jobs and bucket-executor tasks are running;  *)
(* the master thread's queue only grows at its tail, by a submitted run,    *)
(* and a master-thread run that starts is the oldest submitted one, so runs *)
(* start in the order they were submitted.                                  *)
C13_MasterThreadSerializes ==
    /\ [](Cardinality({ i \in running : registry[i].thread = "master" }) <= 1)
    /\ [][/\ \A i \in 1..Len(registry) :
                 (StartsRun(i) /\ registry[i].thread = "master") =>
                     /\ masterQueue # <<>>
                     /\ i = Head(masterQueue)
                     /\ masterQueue' = Tail(masterQueue)
                     /\ \A j \in running : registry[j].thread # "master"
          /\ masterQueue' # masterQueue =>
                 \/ masterQueue # <<>> /\ masterQueue' = Tail(masterQueue)
                 \/ \E i \in 1..Len(registry) :
                        /\ registry[i].thread = "master"
                        /\ masterQueue' = Append(masterQueue, i)]_vars

(* A master-thread job runs while the default-pool job and a bucket task    *)
(* run too, and two more master-thread runs wait, submitted out of registry *)
(* order.                                                                   *)
C13_Witness ==
    /\ Cardinality({ i \in running : registry[i].thread = "master" }) = 1
    /\ \E i \in running : registry[i].thread = "default"
    /\ \E k \in Tasks : tasks[k].pc = "running"
    /\ Len(masterQueue) = 2
    /\ masterQueue[1] > masterQueue[2]

----------------------------------------------------------------------------
(* Properties of bucket-executor tasks *)

TaskRunning(k) == tasks[k].pc = "running"

(* Guard holders among themselves (part of C14): two running tasks of a     *)
(* bucket, and while a task runs on a bucket no lockBucket caller holds the *)
(* guard of that bucket (and the other way round); a task starts, and a     *)
(* caller is granted its guard, only in a step from a state where no task   *)
(* runs on the bucket and no caller holds it.                               *)
C14_BucketTasksExcludeOneAnother ==
    /\ [](/\ \A k \in Tasks, l \in Tasks :
                (k # l /\ TaskRunning(k) /\ TaskRunning(l)) =>
                    tasks[k].bucket # tasks[l].bucket
          /\ \A k \in Tasks, c \in Callers :
                (TaskRunning(k) /\ Holding(c)) =>
                    tasks[k].bucket # stripUnused(callers[c].bucket))
    /\ [][/\ \A k \in Tasks :
                 (~TaskRunning(k) /\ tasks'[k].pc = "running") =>
                     /\ \A l \in Tasks \ {k} :
                            ~(TaskRunning(l) /\ tasks[l].bucket = tasks'[k].bucket)
                     /\ \A c \in Callers :
                            ~(Holding(c) /\ stripUnused(callers[c].bucket)
                                              = tasks'[k].bucket)
          /\ \A c \in Callers :
                 (~Holding(c) /\ callers'[c].pc = "holding") =>
                     \A k \in Tasks :
                         ~(TaskRunning(k) /\ tasks[k].bucket
                                               = stripUnused(callers'[c].bucket))]_vars

(* Two tasks run at once on different buckets while a lockBucket caller is  *)
(* blocked on a raw id that normalizes to the bucket of one of them.        *)
C14_TasksRunTogether ==
    \E k \in Tasks, l \in Tasks, c \in Callers :
        /\ TaskRunning(k)
        /\ TaskRunning(l)
        /\ tasks[k].bucket # tasks[l].bucket
        /\ Waiting(c)
        /\ ~IsNormalized(callers[c].bucket)
        /\ stripUnused(callers[c].bucket) = tasks[k].bucket

(* The buckets that a running task holds the guard of. *)
TaskGuardedBuckets == { tasks[k].bucket : k \in { l \in Tasks : TaskRunning(l) } }

====
